---- MODULE Spec2Model ----
(***************************************************************************)
(* Model of the kernel-session message correlation of                      *)
(* pyqt_code_editor/components/jupyter_console.py (JupyterConsoleTab and   *)
(* the close_tab path of JupyterConsole).                                  *)
(*                                                                         *)
(* One session is modelled.  Request-ids are the integers 1..MaxReq, which *)
(* the kernel client hands out in increasing order (they are unique).      *)
(* Python values are records [tag, s, n]; texts are sequences of           *)
(* one-character strings.                                                  *)
(***************************************************************************)
EXTENDS Integers, Sequences, FiniteSets, TLC

\* ------------------------------------------------------------------ bounds
\* Number of dispatches (request-ids / futures) of one run.
MaxReq == 2
\* Number of kernel messages that may be queued for the event loop.
MaxChan == 1
\* Number of single-shot refresh timers that may be pending at once.
MaxTimers == 1
\* Number of sessions (tabs) one JupyterConsole creates in a run.
MaxSessions == 3
\* Number of dispatches of each session when two sessions run side by side.
MaxPairReq == 1
\* Number of refresh timers that may be pending at once while the outputs of
\* one execution arrive in a burst.
MaxBurst == 2

Ids == 1..MaxReq
\* Correlation id of a message without parent header (msg_id is None).
NoId == 0

\* The event-loop (GUI) thread runs every Qt slot, _handle_iopub_message
\* included; one other thread may call the execute_* methods.
GuiThread == "gui"
WorkerThread == "worker"
Threads == {GuiThread, WorkerThread}

\* ------------------------------------------------------------ Python values
PyNone == [tag |-> "None", s |-> <<>>, n |-> 0]
PyEmptyDict == [tag |-> "dict", s |-> <<>>, n |-> 0]
PyInt(i) == [tag |-> "int", s |-> <<>>, n |-> i]
PyStr(t) == [tag |-> "str", s |-> t, n |-> 0]
PyExc(name) == [tag |-> "exception", s |-> <<name>>, n |-> 0]
PyBool(b) == [tag |-> "bool", s |-> <<>>, n |-> IF b THEN 1 ELSE 0]

\* ------------------------------------------------------------------- texts
Whitespace == {" ", "\n"}
Digits == {"0", "1", "2", "3", "4", "5", "6", "7", "8", "9"}

RECURSIVE LStrip(_)
LStrip(t) == IF t # <<>> /\ Head(t) \in Whitespace THEN LStrip(Tail(t)) ELSE t

RECURSIVE RStrip(_)
RStrip(t) ==
    IF t # <<>> /\ t[Len(t)] \in Whitespace
    THEN RStrip(SubSeq(t, 1, Len(t) - 1))
    ELSE t

\* str.strip()
Strip(t) == RStrip(LStrip(t))

DigitValue(c) ==
    CASE c = "0" -> 0 [] c = "1" -> 1 [] c = "2" -> 2 [] c = "3" -> 3
      [] c = "4" -> 4 [] c = "5" -> 5 [] c = "6" -> 6 [] c = "7" -> 7
      [] c = "8" -> 8 [] c = "9" -> 9

RECURSIVE DigitsToInt(_)
DigitsToInt(t) ==
    IF t = <<>> THEN 0
    ELSE 10 * DigitsToInt(SubSeq(t, 1, Len(t) - 1)) + DigitValue(t[Len(t)])

\* The JSON documents the model's texts can hold: an integer literal without
\* a leading zero, and the empty object.
IsJsonInt(t) ==
    /\ t # <<>>
    /\ \A i \in 1..Len(t) : t[i] \in Digits
    /\ (Len(t) > 1 => t[1] # "0")
IsJsonEmptyObject(t) == t = <<"{", "}">>
\* json.loads(t) does not raise JSONDecodeError
JsonValid(t) == IsJsonInt(t) \/ IsJsonEmptyObject(t)
\* json.loads(t), for JsonValid(t)
JsonLoads(t) == IF IsJsonInt(t) THEN PyInt(DigitsToInt(t)) ELSE PyEmptyDict

\* ---------------------------------------------------------------- messages
OutputTypes == {"execute_result", "display_data", "stream", "error"}

\* content['text'] of a stream message: a str, absent, or not a str
\* (text_kind "str", "absent", "nonstr").
Msg(type, id, kind, text, state) ==
    [msg_type |-> type, msg_id |-> id, text_kind |-> kind, text |-> text,
     execution_state |-> state]

NoMsg == Msg("none", NoId, "absent", <<>>, "")

\* The texts a kernel prints in the model: print(json.dumps(42)),
\* print("ab"), print() and print(" ").
StreamTexts == {<<"4", "2", "\n">>, <<"a", "b", "\n">>, <<"\n">>}

\* The messages the kernel can broadcast as replies to request `id`.
ReplyMessages(id) ==
    {Msg("stream", id, "str", t, "") : t \in StreamTexts}
    \cup {Msg("stream", id, "absent", <<>>, ""),
          Msg("stream", id, "nonstr", <<>>, "")}
    \cup {Msg("status", id, "absent", <<>>, st) : st \in {"idle", "busy"}}
    \cup {Msg("execute_result", id, "str", <<"4", "2">>, ""),
          Msg("display_data", id, "str", <<"a", "b">>, ""),
          Msg("error", id, "str", <<"E", "r", "r">>, "")}

\* The messages the kernel can broadcast without a parent header: its own
\* status changes and output of no request.
UnsolicitedMessages ==
    {Msg("status", NoId, "absent", <<>>, st) : st \in {"idle", "busy"}}
    \cup {Msg("stream", NoId, "str", <<"a", "b", "\n">>, "")}

IsIdle(m) == m.msg_type = "status" /\ m.execution_state = "idle"

\* ------------------------------------------------------------------- state
VARIABLES
    pending_messages,   \* self._pending_messages: request-id -> future (its handle)
    internal_messages,  \* self._internal_messages
    silent_messages,    \* self._silent_messages
    futures,            \* the Future objects created so far: handle -> [state, result]
    next_id,            \* the next request-id the kernel client issues; a Future
                        \* made for a dispatch that got no id takes the number too
    requests,           \* how each request-id was dispatched: id -> [internal, hide_output]
    channel,            \* iopub messages queued for the event loop, in arrival order
    evicted,            \* request-ids _cleanup_message_ids was called with
    timed_out,          \* futures whose execute_and_return_result timed out
    outstanding,        \* request-ids the running kernel has accepted
    has_kernel,         \* kernel_manager.has_kernel
    channels_running,   \* the kernel client's channels are started
    closed,             \* close_tab has shut the session down
    pc,                 \* per thread: where it is inside execute_and_* ("idle" outside)
    call,               \* per thread: the call it is in
    out,                \* what _handle_iopub_message did, if this step ran it
    ret,                \* what a method returned or raised, if this step ended one
    timers,             \* pending QTimer.singleShot(100, self.update_workspace)
    callbacks,          \* futures carrying _on_workspace_update_complete, not yet run
    emitted,            \* per future of update_workspace: its workspace_updated emissions
    tabs,               \* JupyterConsole.tab_widget: the sessions, in tab order
    current,            \* tab_widget.currentIndex(), counted from 1; 0 is Qt's -1
    sessions,           \* the JupyterConsoleTab objects made: id -> [kernel_name, shutdowns,
                        \* connected]
    next_session,       \* the id of the next JupyterConsoleTab
    initialized,        \* JupyterConsole.__init__ has reached its end (line 374)
    crashed,            \* the process was aborted
    reg,                \* what the last operation of JupyterConsole did
    pair,               \* two sessions side by side: their containers, queues, timers,
                        \* the current one, and what the JupyterConsole forwarded
    printed             \* per request-id: the text its code has written to stdout so far

vars == <<pending_messages, internal_messages, silent_messages, futures, next_id,
          requests, channel, evicted, timed_out, outstanding, has_kernel,
          channels_running, closed, pc, call, out, ret, timers, callbacks, emitted,
          tabs, current, sessions, next_session, initialized, crashed, reg, pair,
          printed>>

tracking == <<pending_messages, internal_messages, silent_messages>>
kernel == <<outstanding, has_kernel, channels_running, closed>>
refresh == <<timers, callbacks, emitted>>
\* The state of one JupyterConsoleTab, and the state of the JupyterConsole.
session == <<pending_messages, internal_messages, silent_messages, futures, next_id,
             requests, channel, evicted, timed_out, outstanding, has_kernel,
             channels_running, closed, pc, call, out, ret, timers, callbacks, emitted>>
registry == <<tabs, current, sessions, next_session, initialized, crashed, reg, pair,
              printed>>
jupyter_console == <<tabs, current, sessions, next_session, initialized, crashed, reg>>

\* ------------------------------------------------------------------ futures
\* concurrent.futures.Future()
NewFuture == [state |-> "PENDING", result |-> PyNone]
Done(fut) == fut.state # "PENDING"
\* Future.set_result / Future.set_exception
SetResult(fut, v) == [state |-> "FINISHED", result |-> v]
SetException(fut, name) == [state |-> "FINISHED", result |-> PyExc(name)]

\* ------------------------------------------------- _handle_iopub_message
\* Lines 106-119: a stream message with a 'text' for a pending future.
FutureAfterStream_Raises(fut, m) ==
    IF Done(fut) \/ m.text_kind = "nonstr" THEN fut
    ELSE LET output == Strip(m.text) IN
         IF output = <<>> THEN fut
         ELSE IF JsonValid(output) THEN SetResult(fut, JsonLoads(output))
         ELSE SetResult(fut, PyStr(output))

FutureAfterStream(fut, m) ==
    IF Done(fut) THEN fut
    ELSE IF m.text_kind = "nonstr"
         \* content['text'].strip() raises AttributeError
         THEN SetException(fut, "AttributeError")
    ELSE LET output == Strip(m.text) IN
         IF output = <<>> THEN fut
         ELSE IF JsonValid(output) THEN SetResult(fut, JsonLoads(output))
         ELSE SetResult(fut, PyStr(output))

\* Lines 125-128: the idle status of a pending request.
FutureAfterIdle_Overwrite(fut) == SetResult(fut, PyEmptyDict)

FutureAfterIdle_Unset(fut) == fut

FutureAfterIdle(fut) == IF Done(fut) THEN fut ELSE SetResult(fut, PyEmptyDict)

\* Line 224: the future of a dispatch that gave no request-id.
FutureWithoutId_Unset(fut) == fut

FutureWithoutId(fut) == SetResult(fut, PyNone)

\* _cleanup_message_ids, one operator per tracking structure.
CleanupPending_Kept(p, id) == p

CleanupPending(p, id) == [k \in (DOMAIN p) \ {id} |-> p[k]]
CleanupInternal_Kept(s, id) == s

CleanupInternal(s, id) == s \ {id}

CleanupSilent_Kept(s, id) == s

CleanupSilent(s, id) == s \ {id}

\* Lines 103-130: the tracked-request branch.  Gives the futures and the three
\* tracking structures after it, and the request-id it evicted (or NoId).
TrackIn(m, futs, pending, internal, silent) ==
    LET id == m.msg_id
        unchanged == [futures |-> futs, pending |-> pending,
                      internal |-> internal, silent |-> silent,
                      evicted |-> NoId]
    IN
    IF id \notin DOMAIN pending THEN unchanged
    ELSE LET h == pending[id] IN
         IF m.msg_type = "stream" /\ m.text_kind # "absent"
         THEN [unchanged EXCEPT
                 !.futures = [futs EXCEPT ![h] = FutureAfterStream(futs[h], m)]]
         ELSE IF IsIdle(m)
         THEN [futures |-> [futs EXCEPT ![h] = FutureAfterIdle(futs[h])],
               pending |-> CleanupPending(pending, id),
               internal |-> CleanupInternal(internal, id),
               silent |-> CleanupSilent(silent, id),
               evicted |-> id]
         ELSE unchanged

\* The branch on this session's own structures.
Track(m) ==
    TrackIn(m, futures, pending_messages, internal_messages, silent_messages)

\* One execution_complete.emit(output, content).
Emission(m, text, kind) == [output |-> text, output_kind |-> kind, content |-> m.msg_type]
EmptyEmission == [output |-> <<>>, output_kind |-> "str", content |-> "empty"]

\* '\n'.join(lines), for lines of one character each.
RECURSIVE JoinLines(_)
JoinLines(lines) ==
    IF Len(lines) <= 1 THEN lines
    ELSE <<Head(lines), "\n">> \o JoinLines(Tail(lines))

\* Lines 141-152: the text emitted for an output message.  The text of an
\* execute_result or display_data message is its data['text/plain'], that of
\* a stream message its 'text', that of an error message its traceback, one
\* line per element.
OutputText_Unjoined(m) == m.text

OutputText(m) == IF m.msg_type = "error" THEN JoinLines(m.text) ELSE m.text

\* Lines 132-154: the execution_complete emissions of one message, in order.
\* `internal` is _internal_messages as the tracked-request branch left it and
\* is_silent was computed before that branch (line 100).
Emits_IdleAlways(m, internal, is_silent) ==
    IF m.msg_id \in internal THEN <<>>
    ELSE (IF IsIdle(m) THEN <<EmptyEmission>> ELSE <<>>)
         \o (IF m.msg_type = "execute_result"
             THEN <<Emission(m, OutputText(m), "str")>>
             ELSE IF m.msg_type \in {"stream", "display_data", "error"}
             THEN <<Emission(m, OutputText(m), "str")>>
             ELSE <<>>)

Emits(m, internal, is_silent) ==
    IF m.msg_id \in internal THEN <<>>
    ELSE (IF ~is_silent /\ IsIdle(m) THEN <<EmptyEmission>> ELSE <<>>)
         \o (IF m.msg_type = "execute_result"
             THEN <<Emission(m, OutputText(m), "str")>>
             ELSE IF m.msg_type \in {"stream", "display_data", "error"}
             THEN <<Emission(m, OutputText(m),
                             IF m.msg_type = "stream" /\ m.text_kind = "nonstr"
                             THEN "nonstr" ELSE "str")>>
             ELSE <<>>)

\* Lines 156-159: whether the message goes to self._original_iopub_handler.
Forwarded_NonSilentOnly(m, is_silent) == ~is_silent

Forwarded(m, is_silent) == ~is_silent \/ m.msg_type \notin OutputTypes

\* What one run of _handle_iopub_message did with message m: `tracked` is the
\* test of line 103, `workspace` the payloads of the workspace_updated
\* emissions of the step, in order.
Handled(m, tracked, emits, forwarded, workspace) ==
    [msg |-> m, tracked |-> tracked, emits |-> emits, forwarded |-> forwarded,
     workspace |-> workspace]
NotHandled == Handled(NoMsg, FALSE, <<>>, FALSE, <<>>)

\* ------------------------------------------- _on_workspace_update_complete
\* workspace_updated is declared Signal(dict) (line 22).  emit(v) with a v
\* that is no dict is checked by the Qt binding, which is not code of this
\* repository: a binding that checks the argument raises TypeError, one that
\* does not delivers v.  `checks` is which of the two the binding does.
SignalDictAccepts(v, checks) == v.tag = "dict" \/ ~checks

\* Lines 179-186: the payload emitted for a done future.
WorkspacePayload(fut, checks) ==
    IF fut.result.tag = "exception" THEN PyEmptyDict         \* line 180 raises
    ELSE IF SignalDictAccepts(fut.result, checks) THEN fut.result
    ELSE PyEmptyDict                                         \* line 182 raises

\* Future._invoke_callbacks: the callbacks of the futures that `after` has
\* done and `before` had not, run by the thread that resolved them.
Resolved(before, after) ==
    {h \in callbacks : ~Done(before[h]) /\ Done(after[h])}

RECURSIVE Payloads(_, _, _)
Payloads(hs, futs, checks) ==
    IF hs = {} THEN <<>>
    ELSE LET h == CHOOSE x \in hs : \A y \in hs : x <= y
         IN <<WorkspacePayload(futs[h], checks)>> \o Payloads(hs \ {h}, futs, checks)

\* emitted, after one more emission for each future in hs
Counted(hs) == [h \in DOMAIN emitted |-> emitted[h] + (IF h \in hs THEN 1 ELSE 0)]

\* What a method gave back to its caller.
Return(thread, api, outcome, cause, v) ==
    [thread |-> thread, api |-> api, outcome |-> outcome, cause |-> cause, value |-> v]
NoReturn == Return("", "", "none", "", PyNone)

\* Slots run on the event-loop thread: it must not be inside a blocking call.
EventLoopFree == pc[GuiThread] = "idle"

\* _handle_iopub_message(msg) for the oldest queued message.  Resolving a
\* future runs its done-callbacks (lines 177-186) inside set_result, and every
\* execution_complete emission runs _on_execution_complete (line 79), which
\* starts one single-shot timer (line 170): Scheduled gives the timers that
\* are pending afterwards.  At most `cap` timers are pending at a time.
Scheduled_Coalesced(pending_timers, emits) ==
    IF emits = <<>> THEN pending_timers ELSE 1

Scheduled(pending_timers, emits) == pending_timers + Len(emits)

DeliverUpTo(cap) ==
    /\ channel # <<>>
    /\ EventLoopFree
    /\ \E checks \in BOOLEAN :
         LET m == Head(channel)
             is_silent == m.msg_id \in silent_messages
             t == Track(m)
             emits == Emits(m, t.internal, is_silent)
             resolved == Resolved(futures, t.futures)
         IN /\ timers + Len(emits) <= cap
            /\ futures' = t.futures
            /\ pending_messages' = t.pending
            /\ internal_messages' = t.internal
            /\ silent_messages' = t.silent
            /\ evicted' = IF t.evicted = NoId THEN evicted ELSE evicted \cup {t.evicted}
            /\ callbacks' = callbacks \ resolved
            /\ emitted' = Counted(resolved)
            /\ timers' = Scheduled(timers, emits)
            /\ out' = Handled(m, m.msg_id \in DOMAIN pending_messages, emits,
                              Forwarded(m, is_silent),
                              Payloads(resolved, t.futures, checks))
    /\ channel' = Tail(channel)
    /\ ret' = NoReturn
    /\ UNCHANGED <<next_id, requests, timed_out, kernel, pc, call, registry>>

Deliver == DeliverUpTo(MaxTimers)

\* ---------------------------------------------------------------- dispatch
\* kernel_client.execute(code, silent=True, store_history=False) is code of
\* jupyter_client: it returns a fresh request-id ("ok"), returns nothing
\* ("none") or raises ("raise", e.g. ValueError for a code that is no str).
ExecuteOutcomes == {"ok", "none", "raise"}

Request(internal, hide_output) == [internal |-> internal, hide_output |-> hide_output]

Extend(f, k, v) == [x \in (DOMAIN f) \cup {k} |-> IF x = k THEN v ELSE f[x]]

\* Line 202 with outcome "ok": the request is on its way under request-id next_id.
Sent(internal, hide_output) ==
    /\ next_id <= MaxReq
    /\ requests' = Extend(requests, next_id, Request(internal, hide_output))
    /\ outstanding' = IF has_kernel /\ channels_running
                      THEN outstanding \cup {next_id} ELSE outstanding
    /\ next_id' = next_id + 1

\* Lines 204-207 of execute_silently.
WithInternal(s, id, internal) == IF internal THEN s \cup {id} ELSE s
WithSilent(s, id, hide_output) == IF hide_output THEN s \cup {id} ELSE s

Call(api, handle, id) == [api |-> api, handle |-> handle, msg_id |-> id]
NoCall == Call("", NoId, NoId)

\* execute_silently(code, internal, hide_output) called on the event-loop
\* thread, as by change_directory and JupyterConsole.execute_code (defaults).
\* Without a request-id (outcome "none" or "raise") it changes nothing.
ExecuteSilently(internal, hide_output) ==
    /\ EventLoopFree
    /\ Sent(internal, hide_output)
    /\ internal_messages' = WithInternal(internal_messages, next_id, internal)
    /\ silent_messages' = WithSilent(silent_messages, next_id, hide_output)
    /\ out' = NotHandled
    /\ UNCHANGED <<refresh, registry>>
    /\ ret' = NoReturn
    /\ UNCHANGED <<pending_messages, futures, channel, evicted, timed_out, has_kernel,
                   channels_running, closed, pc, call>>

\* execute_code(code), lines 188-190: the widget sends the request itself, as
\* a visible execution; the session tracks nothing for it.
ExecuteCode ==
    /\ EventLoopFree
    /\ Sent(FALSE, FALSE)
    /\ out' = NotHandled
    /\ ret' = NoReturn
    /\ UNCHANGED <<tracking, futures, channel, evicted, timed_out, has_kernel,
                   channels_running, closed, pc, call, refresh, registry>>

\* Lines 221-228 run without interleaving, as on the event-loop thread:
\* execute_and_get_future, and the first line of execute_and_return_result.
\* `after` is where the thread is afterwards.
GuiDispatch(api, outcome, after) ==
    /\ EventLoopFree
    /\ \/ /\ outcome = "ok"
          /\ Sent(TRUE, TRUE)
          /\ internal_messages' = WithInternal(internal_messages, next_id, TRUE)
          /\ silent_messages' = WithSilent(silent_messages, next_id, TRUE)
          /\ pending_messages' = Extend(pending_messages, next_id, next_id)
          /\ futures' = Extend(futures, next_id, NewFuture)
          /\ call' = [call EXCEPT ![GuiThread] =
                        IF after = "idle" THEN NoCall ELSE Call(api, next_id, next_id)]
          /\ pc' = [pc EXCEPT ![GuiThread] = after]
          /\ ret' = IF after = "idle"
                    THEN Return(GuiThread, api, "returned", "future", PyInt(next_id))
                    ELSE NoReturn
       \/ /\ outcome = "none"
          /\ next_id <= MaxReq
          /\ next_id' = next_id + 1
          /\ futures' = Extend(futures, next_id, FutureWithoutId(NewFuture))
          /\ call' = [call EXCEPT ![GuiThread] =
                        IF after = "idle" THEN NoCall ELSE Call(api, next_id, NoId)]
          /\ pc' = [pc EXCEPT ![GuiThread] = after]
          /\ ret' = IF after = "idle"
                    THEN Return(GuiThread, api, "returned", "future", PyInt(next_id))
                    ELSE NoReturn
          /\ UNCHANGED <<tracking, requests, outstanding>>
       \/ /\ outcome = "raise"
          /\ ret' = Return(GuiThread, api, "raised", "dispatch", PyExc("ValueError"))
          /\ UNCHANGED <<tracking, futures, next_id, requests, outstanding, pc, call>>
    /\ out' = NotHandled
    /\ UNCHANGED <<refresh, registry>>
    /\ UNCHANGED <<channel, evicted, timed_out, has_kernel, channels_running, closed>>

GuiExecuteAndGetFuture ==
    \E o \in ExecuteOutcomes : GuiDispatch("execute_and_get_future", o, "idle")

\* Line 212, then the thread is inside future.result(timeout) (line 214).
GuiExecuteAndReturnResult ==
    \E o \in ExecuteOutcomes : GuiDispatch("execute_and_return_result", o, "L214")

\* The same code on another thread: every statement is a step of its own.
\* Lines 221-222 and 202.
WorkerCall(api) ==
    /\ pc[WorkerThread] = "idle"
    /\ \E o \in ExecuteOutcomes :
         \/ /\ o = "ok"
            /\ Sent(TRUE, TRUE)
            /\ futures' = Extend(futures, next_id, NewFuture)
            /\ call' = [call EXCEPT ![WorkerThread] = Call(api, next_id, next_id)]
            /\ pc' = [pc EXCEPT ![WorkerThread] = "L203"]
            /\ ret' = NoReturn
         \/ /\ o = "none"
            /\ next_id <= MaxReq
            /\ next_id' = next_id + 1
            /\ futures' = Extend(futures, next_id, NewFuture)
            /\ call' = [call EXCEPT ![WorkerThread] = Call(api, next_id, NoId)]
            /\ pc' = [pc EXCEPT ![WorkerThread] = "L223"]
            /\ ret' = NoReturn
            /\ UNCHANGED <<requests, outstanding>>
         \/ /\ o = "raise"
            /\ ret' = Return(WorkerThread, api, "raised", "dispatch", PyExc("ValueError"))
            /\ UNCHANGED <<futures, next_id, requests, outstanding, pc, call>>
    /\ out' = NotHandled
    /\ UNCHANGED <<refresh, registry>>
    /\ UNCHANGED <<tracking, channel, evicted, timed_out, has_kernel, channels_running,
                   closed>>

WorkerExecuteAndGetFuture == WorkerCall("execute_and_get_future")
WorkerExecuteAndReturnResult == WorkerCall("execute_and_return_result")

\* Lines 203-205.
WorkerAddInternal ==
    /\ pc[WorkerThread] = "L203"
    /\ internal_messages' = WithInternal(internal_messages, call[WorkerThread].msg_id, TRUE)
    /\ pc' = [pc EXCEPT ![WorkerThread] = "L206"]
    /\ out' = NotHandled
    /\ UNCHANGED <<refresh, registry>>
    /\ ret' = NoReturn
    /\ UNCHANGED <<pending_messages, silent_messages, futures, next_id, requests,
                   channel, evicted, timed_out, kernel, call>>

\* Lines 206-208.
WorkerAddSilent ==
    /\ pc[WorkerThread] = "L206"
    /\ silent_messages' = WithSilent(silent_messages, call[WorkerThread].msg_id, TRUE)
    /\ pc' = [pc EXCEPT ![WorkerThread] = "L223"]
    /\ out' = NotHandled
    /\ UNCHANGED <<refresh, registry>>
    /\ ret' = NoReturn
    /\ UNCHANGED <<pending_messages, internal_messages, futures, next_id, requests,
                   channel, evicted, timed_out, kernel, call>>

\* Lines 223-228, and the return to line 214 of execute_and_return_result.
WorkerRegister ==
    /\ pc[WorkerThread] = "L223"
    /\ LET c == call[WorkerThread]
           waits == c.api = "execute_and_return_result"
       IN
       /\ IF c.msg_id = NoId
          THEN /\ futures' = [futures EXCEPT ![c.handle] = FutureWithoutId(@)]
               /\ UNCHANGED pending_messages
          ELSE /\ pending_messages' = Extend(pending_messages, c.msg_id, c.handle)
               /\ UNCHANGED futures
       /\ pc' = [pc EXCEPT ![WorkerThread] = IF waits THEN "L214" ELSE "idle"]
       /\ call' = [call EXCEPT ![WorkerThread] = IF waits THEN c ELSE NoCall]
       /\ ret' = IF waits THEN NoReturn
                 ELSE Return(WorkerThread, c.api, "returned", "future", PyInt(c.handle))
    /\ out' = NotHandled
    /\ UNCHANGED <<refresh, registry>>
    /\ UNCHANGED <<internal_messages, silent_messages, next_id, requests, channel,
                   evicted, timed_out, kernel>>

\* -------------------------------------------------------- update_workspace
\* update_workspace (lines 172-175): get_workspace_async dispatches the
\* snapshot snippet through execute_and_get_future, then the done-callback is
\* added; a future that is already done runs it at once.  Nothing is returned.
UpdateWorkspaceCall(outcome) ==
    /\ EventLoopFree
    /\ \/ /\ outcome = "ok"
          /\ Sent(TRUE, TRUE)
          /\ internal_messages' = WithInternal(internal_messages, next_id, TRUE)
          /\ silent_messages' = WithSilent(silent_messages, next_id, TRUE)
          /\ pending_messages' = Extend(pending_messages, next_id, next_id)
          /\ futures' = Extend(futures, next_id, NewFuture)
          /\ callbacks' = callbacks \cup {next_id}
          /\ emitted' = Extend(emitted, next_id, 0)
          /\ out' = NotHandled
          /\ ret' = Return(GuiThread, "update_workspace", "returned", "", PyNone)
       \/ /\ outcome = "none"
          /\ next_id <= MaxReq
          /\ next_id' = next_id + 1
          /\ LET fut == FutureWithoutId(NewFuture) IN
             /\ futures' = Extend(futures, next_id, fut)
             /\ IF Done(fut)
                THEN /\ emitted' = Extend(emitted, next_id, 1)
                     /\ \E checks \in BOOLEAN :
                           out' = Handled(NoMsg, FALSE, <<>>, FALSE,
                                          <<WorkspacePayload(fut, checks)>>)
                     /\ UNCHANGED callbacks
                ELSE /\ emitted' = Extend(emitted, next_id, 0)
                     /\ callbacks' = callbacks \cup {next_id}
                     /\ out' = NotHandled
          /\ ret' = Return(GuiThread, "update_workspace", "returned", "", PyNone)
          /\ UNCHANGED <<tracking, requests, outstanding>>
       \/ /\ outcome = "raise"
          /\ out' = NotHandled
          /\ ret' = Return(GuiThread, "update_workspace", "raised", "dispatch",
                           PyExc("ValueError"))
          /\ UNCHANGED <<tracking, futures, next_id, requests, outstanding, callbacks,
                         emitted>>
    /\ UNCHANGED <<channel, evicted, timed_out, has_kernel, channels_running, closed,
                   pc, call, registry>>

\* update_workspace called directly, as by JupyterConsole._on_tab_changed.
UpdateWorkspace ==
    /\ \E o \in ExecuteOutcomes : UpdateWorkspaceCall(o)
    /\ UNCHANGED timers

\* A single-shot timer started by _on_execution_complete expires.
TimerExpires ==
    /\ timers > 0
    /\ timers' = timers - 1
    /\ \E o \in ExecuteOutcomes : UpdateWorkspaceCall(o)

\* ------------------------------------------- execute_and_return_result
\* Line 214 when the future is done: future.result() returns its value, or
\* raises its exception, which line 215 catches (return None).
ResultOf(t, fut) ==
    IF fut.result.tag = "exception"
    THEN Return(t, "execute_and_return_result", "returned", "exception", PyNone)
    ELSE Return(t, "execute_and_return_result", "returned", "result", fut.result)

ReturnResult(t) ==
    /\ pc[t] = "L214"
    /\ Done(futures[call[t].handle])
    /\ ret' = ResultOf(t, futures[call[t].handle])
    /\ pc' = [pc EXCEPT ![t] = "idle"]
    /\ call' = [call EXCEPT ![t] = NoCall]
    /\ out' = NotHandled
    /\ UNCHANGED <<refresh, registry>>
    /\ UNCHANGED <<tracking, futures, next_id, requests, channel, evicted, timed_out,
                   kernel>>

\* Lines 214-217 when the wait times out: TimeoutError is caught, nothing is
\* done to the future or to the tracking structures.
FutureAfterTimeout_Cancel(fut) == [fut EXCEPT !.state = "CANCELLED"]

FutureAfterTimeout(fut) == fut

Timeout(t) ==
    /\ pc[t] = "L214"
    /\ ~Done(futures[call[t].handle])
    /\ futures' = [futures EXCEPT ![call[t].handle] = FutureAfterTimeout(@)]
    /\ timed_out' = timed_out \cup {call[t].handle}
    /\ ret' = Return(t, "execute_and_return_result", "returned", "timeout", PyNone)
    /\ pc' = [pc EXCEPT ![t] = "idle"]
    /\ call' = [call EXCEPT ![t] = NoCall]
    /\ out' = NotHandled
    /\ UNCHANGED <<refresh, registry>>
    /\ UNCHANGED <<tracking, next_id, requests, channel, evicted, kernel>>

\* --------------------------------------------------------- change_directory
\* change_directory(directory), lines 288-294.  `exists` is what
\* os.path.exists(directory) gives; line 292 is execute_silently with its
\* defaults (internal=False, hide_output=True), whose return value is dropped.
ChangeDirectory(exists, outcome) ==
    /\ EventLoopFree
    /\ IF ~exists
       THEN /\ ret' = Return(GuiThread, "change_directory", "returned", "missing",
                             PyBool(FALSE))
            /\ UNCHANGED <<tracking, next_id, requests, outstanding>>
       ELSE \/ /\ outcome = "ok"
               /\ Sent(FALSE, TRUE)
               /\ internal_messages' = WithInternal(internal_messages, next_id, FALSE)
               /\ silent_messages' = WithSilent(silent_messages, next_id, TRUE)
               /\ ret' = Return(GuiThread, "change_directory", "returned", "ok",
                                PyBool(TRUE))
               /\ UNCHANGED pending_messages
            \/ /\ outcome = "none"
               /\ ret' = Return(GuiThread, "change_directory", "returned", "none",
                                PyBool(TRUE))
               /\ UNCHANGED <<tracking, next_id, requests, outstanding>>
            \/ /\ outcome = "raise"
               /\ ret' = Return(GuiThread, "change_directory", "raised", "dispatch",
                                PyExc("Exception"))
               /\ UNCHANGED <<tracking, next_id, requests, outstanding>>
    /\ out' = NotHandled
    /\ UNCHANGED <<futures, channel, evicted, timed_out, has_kernel, channels_running,
                   closed, pc, call, refresh, registry>>

\* ------------------------------------------------------------------ kernel
\* The kernel broadcasts a message for a request it has accepted, or one
\* without parent; the channel thread queues it for the event loop.
KernelEmit ==
    /\ has_kernel /\ channels_running
    /\ Len(channel) < MaxChan
    /\ \E m \in UnsolicitedMessages \cup UNION {ReplyMessages(id) : id \in outstanding} :
         channel' = Append(channel, m)
    /\ out' = NotHandled
    /\ UNCHANGED <<refresh, registry>>
    /\ ret' = NoReturn
    /\ UNCHANGED <<tracking, futures, next_id, requests, evicted, timed_out, kernel,
                   pc, call>>

\* The kernel evaluates the expression of a request it has accepted and
\* reports the value as the request's result: an execute_result message with
\* the text/plain "42", then the idle status that ends the request.
ResultMessages(id) ==
    <<Msg("execute_result", id, "str", <<"4", "2">>, ""),
      Msg("status", id, "absent", <<>>, "idle")>>

KernelEvaluates ==
    /\ has_kernel /\ channels_running
    /\ channel = <<>>
    /\ \E id \in outstanding :
         /\ channel' = ResultMessages(id)
         /\ outstanding' = outstanding \ {id}
    /\ out' = NotHandled
    /\ ret' = NoReturn
    /\ UNCHANGED <<tracking, futures, next_id, requests, evicted, timed_out, has_kernel,
                   channels_running, closed, pc, call, refresh, registry>>

\* The code of a request writes one of the texts to stdout and the kernel
\* publishes it in one stream message or in several: each message carries the
\* next piece of the text, and the idle status follows the last one.
PrintedFor(id) == IF id \in DOMAIN printed THEN printed[id] ELSE <<>>

IsPrefix(t, u) == Len(t) <= Len(u) /\ SubSeq(u, 1, Len(t)) = t

KernelPrints ==
    /\ has_kernel /\ channels_running
    /\ Len(channel) < MaxChan
    /\ \E id \in outstanding, t \in StreamTexts :
         /\ IsPrefix(PrintedFor(id), t)
         /\ \E n \in (Len(PrintedFor(id)) + 1)..Len(t) :
              LET piece == SubSeq(t, Len(PrintedFor(id)) + 1, n) IN
              /\ channel' = Append(channel, Msg("stream", id, "str", piece, ""))
              /\ printed' = Extend(printed, id, PrintedFor(id) \o piece)
    /\ out' = NotHandled
    /\ ret' = NoReturn
    /\ UNCHANGED <<tracking, futures, next_id, requests, evicted, timed_out, kernel,
                   pc, call, refresh, jupyter_console, pair>>

\* The kernel has run the code of a request: it sends the idle status, and
\* nothing for the request after it.
KernelFinishes ==
    /\ has_kernel /\ channels_running
    /\ Len(channel) < MaxChan
    /\ \E id \in outstanding :
         /\ channel' = Append(channel, Msg("status", id, "absent", <<>>, "idle"))
         /\ outstanding' = outstanding \ {id}
    /\ out' = NotHandled
    /\ ret' = NoReturn
    /\ UNCHANGED <<tracking, futures, next_id, requests, evicted, timed_out, has_kernel,
                   channels_running, closed, pc, call, refresh, registry>>

\* What interrupt_kernel and restart_kernel give back (lines 296-310): with a
\* kernel the request is made (line 300, line 308) and True returned, without
\* one nothing is asked of the kernel and False returned.
SignalKernel_Unguarded(api, running) ==
    Return(GuiThread, api, "returned", "sent", PyBool(TRUE))
SignalKernel(api, running) ==
    Return(GuiThread, api, "returned", IF running THEN "sent" ELSE "no kernel",
           PyBool(running))

\* interrupt_kernel (lines 296-302).
InterruptKernel_Cancelling ==
    /\ EventLoopFree
    /\ ret' = SignalKernel("interrupt_kernel", has_kernel)
    /\ out' = NotHandled
    /\ futures' = [h \in DOMAIN futures |->
                      IF (\E id \in DOMAIN pending_messages : pending_messages[id] = h)
                         /\ ~Done(futures[h])
                      THEN SetResult(futures[h], PyNone) ELSE futures[h]]
    /\ pending_messages' = <<>>
    /\ UNCHANGED <<refresh, registry>>
    /\ UNCHANGED <<internal_messages, silent_messages, next_id, requests, channel,
                   evicted, timed_out, kernel, pc, call>>
InterruptKernel ==
    /\ EventLoopFree
    /\ ret' = SignalKernel("interrupt_kernel", has_kernel)
    /\ out' = NotHandled
    /\ UNCHANGED <<refresh, registry>>
    /\ UNCHANGED <<tracking, futures, next_id, requests, channel, evicted, timed_out,
                   kernel, pc, call>>

\* restart_kernel (lines 304-310): the new kernel knows none of the requests
\* the old one had accepted.
RestartKernel_Clearing ==
    /\ EventLoopFree
    /\ outstanding' = IF has_kernel THEN {} ELSE outstanding
    /\ ret' = SignalKernel("restart_kernel", has_kernel)
    /\ out' = NotHandled
    /\ pending_messages' = <<>>
    /\ internal_messages' = {}
    /\ silent_messages' = {}
    /\ UNCHANGED <<refresh, registry>>
    /\ UNCHANGED <<futures, next_id, requests, channel, evicted, timed_out,
                   has_kernel, channels_running, closed, pc, call>>

RestartKernel ==
    /\ EventLoopFree
    /\ outstanding' = IF has_kernel THEN {} ELSE outstanding
    /\ ret' = SignalKernel("restart_kernel", has_kernel)
    /\ out' = NotHandled
    /\ UNCHANGED <<refresh, registry>>
    /\ UNCHANGED <<tracking, futures, next_id, requests, channel, evicted, timed_out,
                   has_kernel, channels_running, closed, pc, call>>

\* What restart_current_kernel and interrupt_current_kernel do (lines 430-450)
\* with the console get_current_console() gave, if it gave one, and with what
\* the console's method returned: they log and return nothing.
CurrentKernel(api, console, success) ==
    Return(GuiThread, api, "returned",
           IF ~console THEN "no console" ELSE IF success THEN "success" ELSE "failed",
           PyNone)

\* JupyterConsole.interrupt_current_kernel (lines 441-450).  `active` is
\* whether the current tab is this session; there is none when the tab widget
\* is empty, and a closed session is no tab any more.
InterruptCurrentKernel(active) ==
    /\ EventLoopFree
    /\ active => ~closed
    /\ ret' = CurrentKernel("interrupt_current_kernel", active,
                            SignalKernel("interrupt_kernel", has_kernel).value = PyBool(TRUE))
    /\ out' = NotHandled
    /\ UNCHANGED <<refresh, registry>>
    /\ UNCHANGED <<tracking, futures, next_id, requests, channel, evicted, timed_out,
                   kernel, pc, call>>

\* JupyterConsole.restart_current_kernel (lines 430-439).
RestartCurrentKernel(active) ==
    /\ EventLoopFree
    /\ active => ~closed
    /\ outstanding' = IF active /\ has_kernel THEN {} ELSE outstanding
    /\ ret' = CurrentKernel("restart_current_kernel", active,
                            SignalKernel("restart_kernel", has_kernel).value = PyBool(TRUE))
    /\ out' = NotHandled
    /\ UNCHANGED <<refresh, registry>>
    /\ UNCHANGED <<tracking, futures, next_id, requests, channel, evicted, timed_out,
                   has_kernel, channels_running, closed, pc, call>>

\* shutdown_kernel (lines 312-315).
ShutdownKernel ==
    /\ channels_running' = FALSE
    /\ has_kernel' = FALSE
    /\ outstanding' = {}

\* JupyterConsole.close_tab(index) for this session (lines 414-420).
CloseTab ==
    /\ EventLoopFree
    /\ ~closed
    /\ ShutdownKernel
    /\ closed' = TRUE
    /\ out' = NotHandled
    /\ UNCHANGED <<refresh, registry>>
    /\ ret' = NoReturn
    /\ UNCHANGED <<tracking, futures, next_id, requests, channel, evicted, timed_out,
                   pc, call>>

\* ---------------------------------------------------------- JupyterConsole
\* The kernel kinds of the kernel menu, and default_kernel (line 324).
KernelNames == {"python3", "ir"}
DefaultKernel == "python3"

\* No JupyterConsoleTab: what tab_widget.widget(index) and currentWidget()
\* give when there is no such tab.
NoSession == 0

\* The slots of the JupyterConsole that lines 406-407 connect to the signals
\* of the new tab: signal -> slot.
Connections ==
    [execution_complete |-> "handle_execution_complete",
     workspace_updated |-> "handle_workspace_updated"]
NoConnections == [execution_complete |-> "", workspace_updated |-> ""]

\* JupyterConsoleTab(kernel_name, parent) as add_console_tab makes it, with
\* its two signals connected (lines 405-407).
NewSession_Unconnected(kernel_name) ==
    [kernel_name |-> kernel_name, shutdowns |-> 0, connected |-> NoConnections]

NewSession(kernel_name) ==
    [kernel_name |-> kernel_name, shutdowns |-> 0, connected |-> Connections]

\* tab_widget.widget(index)
WidgetAt(ts, i) == IF i \in 1..Len(ts) THEN ts[i] ELSE NoSession

\* One run of _on_tab_changed(index) and the widget its line 377 got.
TabChanged(i, w) == [index |-> i, widget |-> w]

\* The QTabWidget during one operation: its pages, its current index and
\* the runs of the slot connected to currentChanged (line 332) so far.  The
\* slot runs inside the emitting call and finds the pages as they are then.
Qt(ts, cur, sig) == [tabs |-> ts, current |-> cur, signals |-> sig]

\* QTabWidget.setCurrentIndex(i): currentChanged only when the index changes.
QtSetCurrentIndex(q, i) ==
    IF i \in 1..Len(q.tabs) /\ i # q.current
    THEN Qt(q.tabs, i, Append(q.signals, TabChanged(i, WidgetAt(q.tabs, i))))
    ELSE q

\* QTabWidget.addTab(w, label): the first page becomes the current one.
\* add_console_tab gets the index of the new page (line 408).
QtAddTab(q, w) ==
    LET ts == Append(q.tabs, w) IN
    IF q.tabs = <<>>
    THEN Qt(ts, 1, Append(q.signals, TabChanged(1, WidgetAt(ts, 1))))
    ELSE Qt(ts, q.current, q.signals)

RemoveAt(ts, i) == SubSeq(ts, 1, i - 1) \o SubSeq(ts, i + 1, Len(ts))

\* QTabWidget.removeTab(i): removing the current page selects the page to its
\* right (else the last one), removing the only page emits currentChanged(-1),
\* removing a page before the current one moves the current index down.
QtRemoveTab(q, i) ==
    LET ts == RemoveAt(q.tabs, i) IN
    IF i \notin 1..Len(q.tabs) THEN q
    ELSE IF i = q.current
    THEN IF ts = <<>>
         THEN Qt(ts, 0, Append(q.signals, TabChanged(0, WidgetAt(ts, 0))))
         ELSE LET n == IF i <= Len(ts) THEN i ELSE Len(ts)
              IN Qt(ts, n, Append(q.signals, TabChanged(n, WidgetAt(ts, n))))
    ELSE IF i < q.current
    THEN Qt(ts, q.current - 1,
            Append(q.signals, TabChanged(q.current - 1, WidgetAt(ts, q.current - 1))))
    ELSE Qt(ts, q.current, q.signals)

\* Lines 377-378: console_tab.update_workspace() raises AttributeError when
\* widget(index) gave None.  The exceptions of the runs of the slot.
SlotErrors(signals) ==
    [k \in 1..Cardinality({j \in 1..Len(signals) : signals[j].widget = NoSession})
        |-> "AttributeError"]

\* add_console_tab(kernel_name), lines 405-410, for a kernel that starts.
AddConsoleTab_NoSelect(q, made, kernel_name) ==
    [qt |-> QtAddTab(q, next_session),
     sessions |-> Extend(made, next_session, NewSession(kernel_name))]

AddConsoleTab(q, made, kernel_name) ==
    LET q1 == QtAddTab(q, next_session)
    IN [qt |-> QtSetCurrentIndex(q1, Len(q1.tabs)),
        sessions |-> Extend(made, next_session, NewSession(kernel_name))]

\* What one operation of JupyterConsole did: the session it shut down, the
\* number of tabs it found, the runs of _on_tab_changed, the exceptions raised
\* inside them, and how it ended ("returned", "raised", "aborted").
Operation(op, shut, before, changed, errors, outcome) ==
    [op |-> op, closed |-> shut, before |-> before, tab_changed |-> changed,
     errors |-> errors, outcome |-> outcome]
NoOperation == Operation("", NoSession, 0, <<>>, <<>>, "")

\* The last statement of JupyterConsole.__init__ (line 374).
ConsoleInit ==
    /\ ~initialized
    /\ LET a == AddConsoleTab(Qt(tabs, current, <<>>), sessions, DefaultKernel) IN
       /\ tabs' = a.qt.tabs
       /\ current' = a.qt.current
       /\ sessions' = a.sessions
       /\ reg' = Operation("__init__", NoSession, Len(tabs), a.qt.signals, <<>>, "returned")
    /\ next_session' = next_session + 1
    /\ initialized' = TRUE
    /\ UNCHANGED <<crashed, session, pair, printed>>

\* kernel_menu_triggered -> add_console_tab(kernel_name).  `started` is
\* whether QtKernelManager.start_kernel (line 43) succeeds; if not the
\* constructor of the tab raises and no tab is added.
ConsoleAddTab(kernel_name, started) ==
    /\ initialized /\ ~crashed
    /\ next_session <= MaxSessions
    /\ IF started
       THEN LET a == AddConsoleTab(Qt(tabs, current, <<>>), sessions, kernel_name) IN
            /\ tabs' = a.qt.tabs
            /\ current' = a.qt.current
            /\ sessions' = a.sessions
            /\ next_session' = next_session + 1
            /\ reg' = Operation("add_console_tab", NoSession, Len(tabs), a.qt.signals,
                                <<>>, "returned")
       ELSE /\ reg' = Operation("add_console_tab", NoSession, Len(tabs), <<>>,
                                <<"NoSuchKernel">>, "raised")
            /\ UNCHANGED <<tabs, current, sessions, next_session>>
    /\ UNCHANGED <<initialized, crashed, session, pair, printed>>

\* The user selects tab i: tab_widget.setCurrentIndex(i).
ConsoleSelectTab(i) ==
    /\ initialized /\ ~crashed
    /\ i \in 1..Len(tabs)
    /\ LET q == QtSetCurrentIndex(Qt(tabs, current, <<>>), i) IN
       /\ current' = q.current
       /\ reg' = Operation("setCurrentIndex", NoSession, Len(tabs), q.signals, <<>>,
                           "returned")
    /\ UNCHANGED <<tabs, sessions, next_session, initialized, crashed, session, pair, printed>>

\* Line 416: widget.shutdown_kernel() (lines 312-315) has run before removeTab
\* is called.
Shutdown_Skipped(made, widget) == made

Shutdown(made, widget) == [made EXCEPT ![widget].shutdowns = @ + 1]

\* close_tab(index), lines 412-424.  An exception that leaves a slot run by
\* Qt is handled by the Qt binding, which is not code of this repository: it
\* either reports the exception and goes on, or aborts the process (`aborts`).
ConsoleCloseTab(index, aborts, started) ==
    /\ initialized /\ ~crashed
    /\ LET widget == WidgetAt(tabs, index) IN
       IF widget = NoSession
       THEN /\ reg' = Operation("close_tab", NoSession, Len(tabs), <<>>, <<>>, "returned")
            /\ UNCHANGED <<tabs, current, sessions, next_session, crashed>>
       ELSE LET shut == Shutdown(sessions, widget)
                q == QtRemoveTab(Qt(tabs, current, <<>>), index)
                errors == SlotErrors(q.signals)
            IN
            IF errors # <<>> /\ aborts
            THEN /\ crashed' = TRUE
                 /\ tabs' = q.tabs
                 /\ current' = q.current
                 /\ sessions' = shut
                 /\ reg' = Operation("close_tab", widget, Len(tabs), q.signals, errors,
                                     "aborted")
                 /\ UNCHANGED next_session
            ELSE IF q.tabs # <<>>
            THEN /\ tabs' = q.tabs
                 /\ current' = q.current
                 /\ sessions' = shut
                 /\ reg' = Operation("close_tab", widget, Len(tabs), q.signals, errors,
                                     "returned")
                 /\ UNCHANGED <<next_session, crashed>>
            ELSE /\ next_session <= MaxSessions
                 /\ IF started
                    THEN LET a == AddConsoleTab(q, shut, DefaultKernel) IN
                         /\ tabs' = a.qt.tabs
                         /\ current' = a.qt.current
                         /\ sessions' = a.sessions
                         /\ next_session' = next_session + 1
                         /\ reg' = Operation("close_tab", widget, Len(tabs), a.qt.signals,
                                             errors, "returned")
                    ELSE /\ tabs' = q.tabs
                         /\ current' = q.current
                         /\ sessions' = shut
                         /\ reg' = Operation("close_tab", widget, Len(tabs), q.signals,
                                             Append(errors, "NoSuchKernel"), "raised")
                         /\ UNCHANGED next_session
                 /\ UNCHANGED crashed
    /\ UNCHANGED <<initialized, session, pair, printed>>

\* ------------------------------------------------------------ two sessions
\* Two JupyterConsoleTab objects of one JupyterConsole, each with its own
\* kernel, kernel client and iopub channel (lines 41-46, 86-90).
Pair == {1, 2}

\* The containers a JupyterConsoleTab makes in __init__ (lines 30-35), and the
\* futures registered in them.
NewTracking == [pending |-> <<>>, internal |-> {}, silent |-> {}, futures |-> <<>>]

\* Which containers the attributes of session s refer to: the ones its own
\* __init__ made.
TrackingOf_Shared(s) == 1

TrackingOf(s) == s

\* Session s as its methods see it.
View(s) == pair.mem[TrackingOf(s)]

\* The request-ids of a kernel client are unique across clients.
PairIds(s) == {(s - 1) * MaxPairReq + n : n \in 1..pair.sent[s]}
PairNextId(s) == (s - 1) * MaxPairReq + pair.sent[s] + 1

Acted(s, op) == [session |-> s, op |-> op]
NoAct == Acted(0, "")

\* Lines 219-228 on session s with a request-id: what the containers hold
\* after execute_and_get_future.
Registered(v, id) ==
    [pending |-> Extend(v.pending, id, id),
     internal |-> WithInternal(v.internal, id, TRUE),
     silent |-> WithSilent(v.silent, id, TRUE),
     futures |-> Extend(v.futures, id, NewFuture)]

\* Both are tabs of the JupyterConsole, made by add_console_tab: pair.active
\* is the one that is current (at first the one added last), pair.callbacks
\* the futures that carry _on_workspace_update_complete (line 175).  The
\* requests counted in pair.sent are those made since both tabs were there.
\* handle_workspace_updated (lines 478-480), connected to workspace_updated of
\* every tab (line 407), emits the JupyterConsole's workspace_updated with the
\* payload it got: `sender` is the tab whose workspace it is, `active` the
\* current tab at that moment.
Forward(sender, active) ==
    [signal |-> "workspace_updated", sender |-> sender, active |-> active]

\* The user selects the other tab: setCurrentIndex, then _on_tab_changed
\* calls update_workspace on the newly current tab (lines 376-378, 172-175).
PairSelectTab(s) ==
    /\ s # pair.active
    /\ pair.sent[s] < MaxPairReq
    /\ pair' = [pair EXCEPT
                  !.mem[TrackingOf(s)] = Registered(View(s), PairNextId(s)),
                  !.sent[s] = @ + 1,
                  !.acted = Acted(s, "update_workspace"),
                  !.active = s,
                  !.callbacks = @ \cup {PairNextId(s)},
                  !.fwd = <<>>]
    /\ UNCHANGED <<session, jupyter_console, printed>>

\* execute_silently(code, internal, hide_output) on session s, lines 202-208.
PairExecuteSilently(s, internal, hide_output) ==
    /\ pair.sent[s] < MaxPairReq
    /\ LET id == PairNextId(s)
           v == View(s)
       IN pair' = [pair EXCEPT
                     !.mem[TrackingOf(s)] =
                         [v EXCEPT !.internal = WithInternal(@, id, internal),
                                   !.silent = WithSilent(@, id, hide_output)],
                     !.sent[s] = @ + 1,
                     !.acted = Acted(s, "execute_silently"),
                     !.fwd = <<>>]
    /\ UNCHANGED <<session, jupyter_console, printed>>

\* execute_and_get_future(code) on session s, on the event-loop thread.
PairExecuteAndGetFuture(s) ==
    /\ pair.sent[s] < MaxPairReq
    /\ pair' = [pair EXCEPT
                  !.mem[TrackingOf(s)] = Registered(View(s), PairNextId(s)),
                  !.sent[s] = @ + 1,
                  !.acted = Acted(s, "execute_and_get_future"),
                  !.fwd = <<>>]
    /\ UNCHANGED <<session, jupyter_console, printed>>

\* A refresh timer of session s expires: update_workspace (lines 172-175).
PairTimerExpires(s) ==
    /\ pair.timers[s] > 0
    /\ IF pair.sent[s] < MaxPairReq
       THEN pair' = [pair EXCEPT
                       !.mem[TrackingOf(s)] = Registered(View(s), PairNextId(s)),
                       !.sent[s] = @ + 1,
                       !.timers[s] = @ - 1,
                       !.acted = Acted(s, "update_workspace"),
                       !.callbacks = @ \cup {PairNextId(s)},
                       !.fwd = <<>>]
       ELSE pair' = [pair EXCEPT !.timers[s] = @ - 1, !.acted = NoAct, !.fwd = <<>>]
    /\ UNCHANGED <<session, jupyter_console, printed>>

\* The kernel of session s broadcasts on the iopub channel of s.
PairKernelEmit(s) ==
    /\ Len(pair.wire[s]) < MaxChan
    /\ \E m \in UnsolicitedMessages \cup UNION {ReplyMessages(id) : id \in PairIds(s)} :
         pair' = [pair EXCEPT !.wire[s] = Append(@, m), !.acted = NoAct, !.fwd = <<>>]
    /\ UNCHANGED <<session, jupyter_console, printed>>

\* _handle_iopub_message of session s for the oldest message of its channel.
PairDeliver(s) ==
    /\ pair.wire[s] # <<>>
    /\ LET m == Head(pair.wire[s])
           v == View(s)
           is_silent == m.msg_id \in v.silent
           t == TrackIn(m, v.futures, v.pending, v.internal, v.silent)
           emits == Emits(m, t.internal, is_silent)
           resolved == {h \in pair.callbacks \cap DOMAIN v.futures :
                           ~Done(v.futures[h]) /\ Done(t.futures[h])}
       IN /\ pair.timers[s] + Len(emits) <= MaxTimers
          /\ pair' = [pair EXCEPT
                        !.mem[TrackingOf(s)] =
                            [pending |-> t.pending, internal |-> t.internal,
                             silent |-> t.silent, futures |-> t.futures],
                        !.wire[s] = Tail(@),
                        !.timers[s] = Scheduled(@, emits),
                        !.acted = Acted(s, "_handle_iopub_message"),
                        !.callbacks = @ \ resolved,
                        !.fwd = IF resolved = {} THEN <<>>
                                ELSE <<Forward(s, pair.active)>>]
    /\ UNCHANGED <<session, jupyter_console, printed>>

\* ------------------------------------------------------------ specification
Init ==
    /\ pending_messages = <<>>
    /\ internal_messages = {}
    /\ silent_messages = {}
    /\ futures = <<>>
    /\ next_id = 1
    /\ requests = <<>>
    /\ channel = <<>>
    /\ evicted = {}
    /\ timed_out = {}
    /\ outstanding = {}
    /\ has_kernel = TRUE
    /\ channels_running = TRUE
    /\ closed = FALSE
    /\ pc = [t \in Threads |-> "idle"]
    /\ call = [t \in Threads |-> NoCall]
    /\ out = NotHandled
    /\ ret = NoReturn
    /\ timers = 0
    /\ callbacks = {}
    /\ emitted = <<>>
    /\ tabs = <<>>
    /\ current = 0
    /\ sessions = <<>>
    /\ next_session = 1
    /\ initialized = FALSE
    /\ crashed = FALSE
    /\ reg = NoOperation
    /\ pair = [mem |-> [c \in Pair |-> NewTracking],
               wire |-> [s \in Pair |-> <<>>],
               sent |-> [s \in Pair |-> 0],
               timers |-> [s \in Pair |-> 0],
               acted |-> NoAct,
               active |-> 2,
               callbacks |-> {},
               fwd |-> <<>>]
    /\ printed = <<>>

Next ==
    \/ Deliver
    \/ ExecuteCode
    \/ \E i, h \in BOOLEAN : ExecuteSilently(i, h)
    \/ GuiExecuteAndGetFuture
    \/ GuiExecuteAndReturnResult
    \/ WorkerExecuteAndGetFuture
    \/ WorkerExecuteAndReturnResult
    \/ WorkerAddInternal
    \/ WorkerAddSilent
    \/ WorkerRegister
    \/ \E t \in Threads : ReturnResult(t)
    \/ \E t \in Threads : Timeout(t)
    \/ KernelEmit
    \/ InterruptKernel
    \/ RestartKernel
    \/ CloseTab
    \/ UpdateWorkspace
    \/ TimerExpires

Spec == Init /\ [][Next]_vars

\* The event loop delivers every queued message and runs every timer that is
\* due, a wait ends when its future is done or its timeout expires, and a
\* running thread goes on running.  Nothing obliges the kernel to answer, or
\* a caller to call.
Fairness ==
    /\ WF_vars(Deliver)
    /\ WF_vars(TimerExpires)
    /\ WF_vars(WorkerAddInternal)
    /\ WF_vars(WorkerAddSilent)
    /\ WF_vars(WorkerRegister)
    /\ \A t \in Threads : WF_vars(ReturnResult(t))
    /\ \A t \in Threads : WF_vars(Timeout(t))

\* The operations of the event-loop thread that create or resolve a future,
\* and the kernel.
FairNext ==
    \/ Deliver
    \/ GuiExecuteAndGetFuture
    \/ UpdateWorkspace
    \/ TimerExpires
    \/ KernelEmit
    \/ RestartKernel
    \/ CloseTab

FairSpec == Init /\ [][FairNext]_vars /\ Fairness

\* Visible executions and the workspace refreshes they start.
RefreshNext ==
    \/ Deliver
    \/ ExecuteCode
    \/ TimerExpires
    \/ KernelEmit
    \/ CloseTab

RefreshSpec == Init /\ [][RefreshNext]_vars

\* The operations a caller invokes on a session, with a kernel that sends
\* nothing: no message is queued, none is handled, no timer starts.
CallNext ==
    \/ \E i, h \in BOOLEAN : ExecuteSilently(i, h)
    \/ GuiExecuteAndGetFuture
    \/ GuiExecuteAndReturnResult
    \/ WorkerExecuteAndGetFuture
    \/ WorkerExecuteAndReturnResult
    \/ WorkerAddInternal
    \/ WorkerAddSilent
    \/ WorkerRegister
    \/ \E t \in Threads : ReturnResult(t)
    \/ \E t \in Threads : Timeout(t)
    \/ \E e \in BOOLEAN, o \in ExecuteOutcomes : ChangeDirectory(e, o)
    \/ UpdateWorkspace
    \/ InterruptKernel
    \/ RestartKernel
    \/ \E a \in BOOLEAN : InterruptCurrentKernel(a)
    \/ \E a \in BOOLEAN : RestartCurrentKernel(a)
    \/ CloseTab

CallSpec == Init /\ [][CallNext]_vars

\* execute_and_return_result called on a thread that delivers no messages,
\* against a kernel that reports the value of each expression as its result.
ResultNext ==
    \/ WorkerExecuteAndReturnResult
    \/ WorkerAddInternal
    \/ WorkerAddSilent
    \/ WorkerRegister
    \/ ReturnResult(WorkerThread)
    \/ Timeout(WorkerThread)
    \/ KernelEvaluates
    \/ Deliver
    \/ TimerExpires

ResultSpec == Init /\ [][ResultNext]_vars

\* Two sessions of one JupyterConsole running side by side.
PairNext ==
    \E s \in Pair :
        \/ \E i, h \in BOOLEAN : PairExecuteSilently(s, i, h)
        \/ PairExecuteAndGetFuture(s)
        \/ PairTimerExpires(s)
        \/ PairKernelEmit(s)
        \/ PairDeliver(s)

PairSpec == Init /\ [][PairNext]_vars

\* Two tabs between which the user switches, and their workspace refreshes.
SwitchNext ==
    \E s \in Pair :
        \/ PairSelectTab(s)
        \/ PairTimerExpires(s)
        \/ PairKernelEmit(s)
        \/ PairDeliver(s)

SwitchSpec == Init /\ [][SwitchNext]_vars

\* Requests with a future, against a kernel that publishes the output of each
\* request in pieces and then its idle status.
StreamNext ==
    \/ GuiExecuteAndGetFuture
    \/ KernelPrints
    \/ KernelFinishes
    \/ Deliver

StreamSpec == Init /\ [][StreamNext]_vars

\* A visible execution with its outputs arriving faster than the refresh
\* timers expire.
DebounceNext ==
    \/ ExecuteCode
    \/ KernelEmit
    \/ DeliverUpTo(MaxBurst)
    \/ TimerExpires

DebounceSpec == Init /\ [][DebounceNext]_vars

\* A session all of whose dispatches and message deliveries run on the
\* event-loop thread.
GuiNext ==
    \/ Deliver
    \/ ExecuteCode
    \/ \E i, h \in BOOLEAN : ExecuteSilently(i, h)
    \/ GuiExecuteAndGetFuture
    \/ GuiExecuteAndReturnResult
    \/ ReturnResult(GuiThread)
    \/ Timeout(GuiThread)
    \/ UpdateWorkspace
    \/ TimerExpires
    \/ KernelEmit

GuiSpec == Init /\ [][GuiNext]_vars

\* The operations of the JupyterConsole on its tabs.
RegistryNext ==
    \/ ConsoleInit
    \/ \E k \in KernelNames, st \in BOOLEAN : ConsoleAddTab(k, st)
    \/ \E i \in 1..MaxSessions : ConsoleSelectTab(i)
    \/ \E i \in 0..MaxSessions, ab, st \in BOOLEAN : ConsoleCloseTab(i, ab, st)

RegistrySpec == Init /\ [][RegistryNext]_vars

\* ------------------------------------------------------------------ claims
\* The request-id has been issued and the call that dispatched it has
\* finished its bookkeeping (it is not between lines 202 and 228).
Dispatched(id) ==
    /\ id \in DOMAIN requests
    /\ \A t \in Threads : ~(pc[t] \in {"L203", "L206", "L223"} /\ call[t].msg_id = id)

IdleQueuedFor(id) ==
    \E i \in 1..Len(channel) : channel[i].msg_id = id /\ IsIdle(channel[i])

\* This step ran _handle_iopub_message.
HandledNow == out.msg # NoMsg

\* C1 (as claimed): no message carrying the request-id of a request dispatched
\* as silent+internal makes _handle_iopub_message emit execution_complete,
\* whenever it arrives.
C1_NoCompletionForInternal ==
    LET id == out.msg.msg_id IN
    (HandledNow /\ Dispatched(id) /\ requests[id].internal /\ requests[id].hide_output)
        => out.emits = <<>>

\* C2 (as claimed): no execute_result, display_data, stream or error message
\* carrying the request-id of a request dispatched with hide_output=True is
\* passed to the widget's original handler, whenever it arrives; its status
\* messages are passed on.
C2_HiddenOutputNeverForwarded ==
    LET id == out.msg.msg_id IN
    (HandledNow /\ Dispatched(id) /\ requests[id].hide_output)
        => /\ out.msg.msg_type \in OutputTypes => ~out.forwarded
           /\ out.msg.msg_type = "status" => out.forwarded

\* C3 (as claimed): every future registered by execute_and_get_future
\* eventually becomes done as long as its session stays open.
C3_EveryFutureEventuallyDone ==
    \A h \in Ids : (h \in DOMAIN pending_messages)
                     ~> ((h \in DOMAIN futures /\ Done(futures[h])) \/ closed)

\* C3 (amended): a future whose request-id is registered in _pending_messages
\* becomes done once the kernel has emitted the idle status of its request.
C3_DoneOnceIdleEmitted ==
    \A h \in Ids : (h \in DOMAIN pending_messages /\ IdleQueuedFor(h))
                     ~> (h \in DOMAIN futures /\ Done(futures[h]))

\* An idle status has just given a pending future, still unset, its empty result.
C3_Witness ==
    /\ HandledNow /\ IsIdle(out.msg)
    /\ out.msg.msg_id \in evicted
    /\ futures[out.msg.msg_id] = SetResult(NewFuture, PyEmptyDict)

\* C4 (as claimed): once the session is closed no request-id is left in
\* _pending_messages and no future of a dispatched request is unresolved.
C4_CloseResolvesPending ==
    closed => /\ DOMAIN pending_messages = {}
              /\ \A h \in DOMAIN futures : Dispatched(h) => Done(futures[h])

\* C5 (as claimed): every request-id in _internal_messages or _silent_messages
\* is a key of _pending_messages.
C5_TrackedIdsArePending ==
    (internal_messages \cup silent_messages) \subseteq DOMAIN pending_messages

\* C6: a future that is done is never set again: no step changes it.
C6_FutureSetOnce ==
    [][\A h \in DOMAIN futures :
         Done(futures[h]) => (h \in DOMAIN futures' /\ futures'[h] = futures[h])]_vars

\* The idle status of a request arrived when its future already held the
\* value of an earlier stream message, and the future kept that value.
C6_Witness ==
    /\ HandledNow /\ IsIdle(out.msg)
    /\ out.msg.msg_id \in evicted
    /\ futures[out.msg.msg_id].result = PyInt(42)

\* C7: a request-id evicted by _cleanup_message_ids is in none of the three
\* tracking structures in any later state.
C7_EvictedNeverReturns ==
    evicted \cap (DOMAIN pending_messages \cup internal_messages \cup silent_messages) = {}

\* A message for an evicted request-id was handled while a request dispatched
\* later is tracked.
C7_Witness ==
    /\ HandledNow /\ ~IsIdle(out.msg)
    /\ out.msg.msg_id \in evicted
    /\ \E j \in DOMAIN pending_messages : j > out.msg.msg_id

\* C8 (as claimed): while a thread waits in execute_and_return_result for a
\* future that is not done, the event loop is free to run
\* _handle_iopub_message.
C8_WaitDoesNotBlockDelivery ==
    \A t \in Threads :
        (pc[t] = "L214" /\ ~Done(futures[call[t].handle])) => EventLoopFree

\* C9: the step in which execute_and_return_result times out returns None and
\* changes neither the future nor the tracking structures: the request-id is
\* still pending and its future not done; no timed-out future is cancelled;
\* and a later idle status for it resolves the future and evicts the id, as a
\* later stream message with a non-blank text resolves it.
C9_TimeoutLeavesRequest ==
    [][/\ \A t \in Threads :
            (pc[t] = "L214" /\ pc'[t] = "idle" /\ ret'.cause = "timeout")
                => /\ ret'.outcome = "returned" /\ ret'.value = PyNone
                   /\ futures' = futures
                   /\ tracking' = tracking
                   /\ call[t].msg_id \in DOMAIN pending_messages'
                   /\ futures'[pending_messages'[call[t].msg_id]].state = "PENDING"
       /\ \A h \in timed_out : futures[h].state # "CANCELLED"
       /\ \A h \in timed_out \cap DOMAIN pending_messages :
            /\ (out'.msg # NoMsg /\ IsIdle(out'.msg) /\ out'.msg.msg_id = h)
                   => /\ Done(futures'[h])
                      /\ h \notin DOMAIN pending_messages'
                      /\ h \notin internal_messages' \cup silent_messages'
            /\ (out'.msg.msg_type = "stream" /\ out'.msg.text_kind = "str"
                   /\ Strip(out'.msg.text) # <<>> /\ out'.msg.msg_id = h)
                   => Done(futures'[h])]_vars

\* A call timed out, and a later idle status resolved its future and evicted
\* its request-id.
C9_Witness ==
    \E h \in timed_out : h \in evicted /\ Done(futures[h]) /\ ret.cause # "timeout"

\* C10 (as claimed): execute_and_return_result never lets an exception reach
\* its caller.
C10_NeverPropagates ==
    ~(ret.api = "execute_and_return_result" /\ ret.outcome = "raised")

\* C11: when the dispatch gives no request-id, execute_and_get_future returns a
\* future that is already resolved to None, and no step of the call changes
\* _pending_messages, _internal_messages or _silent_messages.
C11_NoIdGivesNullFuture ==
    [][/\ (/\ ret'.api = "execute_and_get_future" /\ ret'.outcome = "returned"
           /\ ret'.value.n \notin DOMAIN requests')
          => /\ futures'[ret'.value.n] = SetResult(NewFuture, PyNone)
             /\ tracking' = tracking
       /\ (/\ pc'[WorkerThread] # pc[WorkerThread]
           /\ call'[WorkerThread].api = "execute_and_get_future"
           /\ call'[WorkerThread].msg_id = NoId)
          => tracking' = tracking]_vars

\* execute_and_get_future has just returned the future of a dispatch without
\* request-id, on the event-loop thread and on the other thread.
C11_Witness ==
    /\ ret.api = "execute_and_get_future" /\ ret.outcome = "returned"
    /\ ret.thread = WorkerThread
    /\ ret.value.n \notin DOMAIN requests
    /\ Done(futures[ret.value.n])
    /\ \E h \in DOMAIN futures : h # ret.value.n /\ h \notin DOMAIN requests

\* C12 (as claimed): close_tab on the only session ends without an error with
\* exactly one session in the registry, of the default kernel kind and not the
\* closed one, and the closed session was shut down exactly once.
C12_CloseLastLeavesOneDefault ==
    (reg.op = "close_tab" /\ reg.closed # NoSession /\ reg.before = 1)
        => /\ reg.outcome = "returned" /\ reg.errors = <<>>
           /\ Len(tabs) = 1
           /\ tabs[1] # reg.closed
           /\ sessions[tabs[1]].kernel_name = DefaultKernel
           /\ sessions[reg.closed].shutdowns = 1

\* C13 (as claimed): once the first session exists the current session is one
\* of the registry's sessions, and every run of _on_tab_changed finds a
\* session at its index.
C13_HandlerAlwaysFindsSession ==
    /\ initialized => WidgetAt(tabs, current) # NoSession
    /\ \A k \in 1..Len(reg.tab_changed) : reg.tab_changed[k].widget # NoSession

\* C14 (as claimed): every call of update_workspace that made a future leads
\* to exactly one workspace_updated emission for it: never two, and eventually
\* one.
C14_ExactlyOneEmission ==
    /\ [](\A h \in DOMAIN emitted : emitted[h] <= 1)
    /\ \A h \in Ids : (h \in DOMAIN emitted) ~> (h \in DOMAIN emitted /\ emitted[h] = 1)

\* C15 (as claimed): the payload of every workspace_updated emission is a
\* mapping, never None and never a text.
C15_PayloadIsMapping ==
    \A k \in 1..Len(out.workspace) : out.workspace[k].tag = "dict"

\* C16 (as claimed): no message carrying the request-id of a request dispatched
\* with internal=True or with hide_output=True makes _on_execution_complete
\* start a refresh timer (one is started per execution_complete emission).
C16_OnlyVisibleCompletionsRefresh ==
    LET id == out.msg.msg_id IN
    (HandledNow /\ Dispatched(id) /\ (requests[id].internal \/ requests[id].hide_output))
        => Len(out.emits) = 0

C18_ChangeDirectoryContract ==
    [][ret'.api = "change_directory" =>
          /\ ret'.outcome = "returned"
          /\ ret'.value = PyBool(ret'.cause # "missing")
          /\ ret'.value = PyBool(FALSE) =>
                UNCHANGED <<tracking, futures, requests, next_id, outstanding>>
          /\ ret'.value = PyBool(TRUE) =>
                /\ DOMAIN requests' = DOMAIN requests \cup {next_id}
                /\ next_id \notin DOMAIN requests
                /\ requests'[next_id] = Request(FALSE, TRUE)
                /\ silent_messages' = silent_messages \cup {next_id}
                /\ UNCHANGED <<pending_messages, internal_messages, futures>>]_vars

\* C19: interrupt_kernel and restart_kernel return False and ask nothing of
\* the kernel when kernel_manager.has_kernel is false, and return True having
\* made the request otherwise; interrupt_current_kernel and
\* restart_current_kernel return (they never raise), with or without a
\* current console, and without one they leave the session as it is.
C19_SignalOnlyWithKernel ==
    [][/\ ret'.api \in {"interrupt_kernel", "restart_kernel"} =>
            /\ ret'.outcome = "returned"
            /\ IF has_kernel
               THEN ret'.value = PyBool(TRUE) /\ ret'.cause = "sent"
               ELSE /\ ret'.value = PyBool(FALSE) /\ ret'.cause = "no kernel"
                    /\ UNCHANGED <<tracking, futures, requests, channel, kernel>>
       /\ ret'.api \in {"interrupt_current_kernel", "restart_current_kernel"} =>
            /\ ret'.outcome = "returned"
            /\ ret'.cause = "no console" =>
                 UNCHANGED <<tracking, futures, requests, channel, kernel>>]_vars

\* interrupt_kernel has been called on a session whose kernel was shut down.
C19_Witness ==
    /\ ret.api = "interrupt_kernel"
    /\ ~has_kernel /\ closed
    /\ ret.value = PyBool(FALSE)

\* C20: interrupt_kernel, called directly or through
\* interrupt_current_kernel, leaves _pending_messages, _internal_messages,
\* _silent_messages and every future as they were.
C20_InterruptKeepsFutures ==
    [][ret'.api \in {"interrupt_kernel", "interrupt_current_kernel"} =>
          UNCHANGED <<pending_messages, internal_messages, silent_messages, futures>>]_vars

\* interrupt_kernel has sent the signal while a registered future is pending.
C20_Witness ==
    /\ ret.api = "interrupt_kernel" /\ ret.value = PyBool(TRUE)
    /\ \E id \in DOMAIN pending_messages : ~Done(futures[pending_messages[id]])

\* C21 (as claimed): when the kernel reports the value of the expression as
\* the request's result (text/plain "42"), a call of execute_and_return_result
\* that got a request-id and whose future is resolved returns 42 or the text
\* "42".
C21_ReturnsReportedValue ==
    [][(pc[WorkerThread] = "L214" /\ pc'[WorkerThread] = "idle"
          /\ call[WorkerThread].msg_id # NoId /\ ret'.cause = "result")
        => ret'.value \in {PyInt(42), PyStr(<<"4", "2">>)}]_vars

\* C22: a dispatch on one session, and the classification of a message
\* delivered to it, leave _pending_messages, _internal_messages,
\* _silent_messages and the futures of the other session as they were.
C22_SessionsIndependent ==
    [][\A a \in Pair : pair'.acted.session = a =>
          \A b \in Pair \ {a} : View(b)' = View(b)]_vars

\* Session 1 has just classified the idle status of its pending request while
\* session 2 holds a pending request with an unresolved future.
C22_Witness ==
    /\ pair.acted = Acted(1, "_handle_iopub_message")
    /\ View(1).pending = <<>> /\ DOMAIN View(1).futures # {}
    /\ \E id \in DOMAIN View(2).pending : ~Done(View(2).futures[View(2).pending[id]])

\* C23: no session is out of the tab widget with its kernel not shut down;
\* close_tab has shut the closed session down (once) and removed it; every run
\* of _on_tab_changed during the operation finds it removed already; and when
\* the last tab was closed the tab widget was seen empty before the default
\* session became the current one.
C23_ShutDownThenRemoveThenCreate ==
    /\ \A id \in DOMAIN sessions :
          (\A k \in 1..Len(tabs) : tabs[k] # id) => sessions[id].shutdowns >= 1
    /\ (reg.op = "close_tab" /\ reg.closed # NoSession) =>
          /\ sessions[reg.closed].shutdowns = 1
          /\ \A k \in 1..Len(tabs) : tabs[k] # reg.closed
          /\ \A k \in 1..Len(reg.tab_changed) : reg.tab_changed[k].widget # reg.closed
          /\ (reg.before = 1 /\ tabs # <<>>) =>
                /\ Len(tabs) = 1 /\ tabs[1] = next_session - 1
                /\ reg.tab_changed = <<TabChanged(0, NoSession), TabChanged(1, tabs[1])>>

\* The last tab has been closed and the default session created in its place.
C23_Witness ==
    /\ reg.op = "close_tab" /\ reg.closed # NoSession /\ reg.before = 1
    /\ reg.outcome = "returned"
    /\ Len(tabs) = 1 /\ sessions[reg.closed].shutdowns = 1

\* C24: a session that has been created is the active one; whenever an
\* operation changes the active session to another session, one of its runs of
\* _on_tab_changed calls update_workspace on the newly active session; and no
\* run of the operation calls it on any other session.
C24_RefreshOnNewlyActiveOnly ==
    [][LET old == WidgetAt(tabs, current)
           new == WidgetAt(tabs', current')
       IN /\ (reg'.op \in {"__init__", "add_console_tab"} /\ reg'.outcome = "returned")
                => new = next_session
          /\ (new # old /\ new # NoSession)
                => \E k \in 1..Len(reg'.tab_changed) : reg'.tab_changed[k].widget = new
          /\ \A k \in 1..Len(reg'.tab_changed) :
                reg'.tab_changed[k].widget \in {new, NoSession}]_vars

\* The active session, the last of two tabs, has been closed: the other
\* session is active and _on_tab_changed ran for it.
C24_Witness ==
    /\ reg.op = "close_tab" /\ reg.closed = 2 /\ reg.before = 2
    /\ tabs = <<1>> /\ current = 1
    /\ reg.tab_changed = <<TabChanged(1, 1)>>

\* C25 (as claimed): once the idle status of a pending request has been
\* handled, a request whose stream messages together carried a non-blank text
\* has a future whose value is the JSON parse of that whole text, stripped, or
\* the stripped text itself if it is no JSON: however the text was split.
C25_AccumulatedTextDecides ==
    \A id \in evicted :
        LET output == Strip(PrintedFor(id)) IN
        output # <<>> =>
            futures[id].result = IF JsonValid(output) THEN JsonLoads(output)
                                 ELSE PyStr(output)

\* C26: the step that classifies the idle status of a request-id in
\* _pending_messages resolves its future to {} if it was not done and leaves
\* it as it was otherwise, and removes the request-id from _pending_messages,
\* _internal_messages and _silent_messages in that step; no other future and
\* no other request-id is touched.
C26_IdleResolvesAndEvicts ==
    [][(out'.msg # NoMsg /\ IsIdle(out'.msg) /\ out'.tracked) =>
          LET id == out'.msg.msg_id
              h == pending_messages[id]
          IN /\ futures'[h] = IF Done(futures[h]) THEN futures[h]
                              ELSE SetResult(futures[h], PyEmptyDict)
             /\ \A g \in DOMAIN futures \ {h} : futures'[g] = futures[g]
             /\ DOMAIN pending_messages' = DOMAIN pending_messages \ {id}
             /\ internal_messages' = internal_messages \ {id}
             /\ silent_messages' = silent_messages \ {id}
             /\ id \in evicted']_vars

\* The idle status of a pending request was classified when its future
\* already held the raw text of its output; the request-id is tracked nowhere.
C26_Witness ==
    /\ HandledNow /\ IsIdle(out.msg) /\ out.tracked
    /\ futures[out.msg.msg_id].result = PyStr(<<"a", "b">>)
    /\ out.msg.msg_id \notin DOMAIN pending_messages \cup internal_messages \cup silent_messages

C28_EmissionTable ==
    [][(out'.msg # NoMsg /\ out'.msg.msg_id \notin internal_messages') =>
          LET m == out'.msg
              e == out'.emits
          IN /\ Len(e) <= 1
             /\ IsIdle(m) =>
                   IF m.msg_id \in silent_messages THEN e = <<>>
                   ELSE e = <<EmptyEmission>>
             /\ m.msg_type \in {"execute_result", "display_data", "stream"} =>
                   /\ Len(e) = 1 /\ e[1].output = m.text /\ e[1].content = m.msg_type
             /\ m.msg_type = "error" =>
                   /\ Len(e) = 1 /\ e[1].content = "error"
                   /\ Len(e[1].output) = 2 * Len(m.text) - 1
                   /\ \A k \in 1..Len(e[1].output) :
                         e[1].output[k] = IF k % 2 = 1 THEN m.text[(k + 1) \div 2] ELSE "\n"
             /\ (m.msg_type \notin OutputTypes /\ ~IsIdle(m)) => e = <<>>]_vars

\* An error message of a visible request was handled: one emission, its
\* traceback of three lines joined.
C28_Witness ==
    /\ HandledNow /\ out.msg.msg_type = "error"
    /\ Len(out.msg.text) = 3
    /\ Len(out.emits) = 1 /\ Len(out.emits[1].output) = 5

\* C29: when content['text'].strip() raises for a stream message of a
\* pending request whose future is not done, the step sets that future to the
\* exception and changes no other future and none of the three tracking
\* structures; the handler goes on to its end, where it emits nothing and
\* shows nothing for the message; and the idle status that follows is
\* classified as for any request: the future keeps the exception and the
\* request-id is evicted.
C29_ExceptionFailsThatFutureOnly ==
    [][(out'.msg # NoMsg /\ out'.tracked) =>
          LET m == out'.msg
              h == pending_messages[m.msg_id]
          IN /\ (m.msg_type = "stream" /\ m.text_kind = "nonstr" /\ ~Done(futures[h])) =>
                   /\ futures'[h] = SetException(futures[h], "AttributeError")
                   /\ \A g \in DOMAIN futures \ {h} : futures'[g] = futures[g]
                   /\ UNCHANGED tracking
                   /\ out'.emits = <<>> /\ ~out'.forwarded
             /\ (IsIdle(m) /\ futures[h].result.tag = "exception") =>
                   /\ futures'[h] = futures[h]
                   /\ m.msg_id \notin DOMAIN pending_messages'
                   /\ m.msg_id \notin internal_messages' \cup silent_messages']_vars

\* A future holds the exception of a stream message while another request is
\* pending with its future not done, and the idle status of the failed
\* request has been classified.
C29_Witness ==
    /\ HandledNow /\ IsIdle(out.msg) /\ out.tracked
    /\ futures[out.msg.msg_id].result = PyExc("AttributeError")
    /\ \E id \in DOMAIN pending_messages : ~Done(futures[pending_messages[id]])

\* C30 (as claimed): while execute_and_get_future is running on the worker
\* thread and has not yet finished adding the request-id it was given to
\* _internal_messages, _silent_messages and _pending_messages, no message
\* carrying that request-id is classified.
C30_ClassifiedAfterRegistration ==
    [][out'.msg # NoMsg =>
          ~(/\ pc[WorkerThread] \in {"L203", "L206", "L223"}
            /\ call[WorkerThread].api = "execute_and_get_future"
            /\ call[WorkerThread].msg_id # NoId
            /\ call[WorkerThread].msg_id = out'.msg.msg_id)]_vars

\* C31: an add_console_tab that returns has put exactly one new session at
\* the end of the tabs, made it the current one, and connected its
\* execution_complete and workspace_updated to handle_execution_complete and
\* handle_workspace_updated; the sessions that existed and their order are as
\* they were.  One that raises (the kernel does not start) changes nothing.
C31_AppendsOneActiveConnected ==
    [][reg'.op = "add_console_tab" =>
          IF reg'.outcome = "returned"
          THEN /\ next_session \notin DOMAIN sessions
               /\ DOMAIN sessions' = DOMAIN sessions \cup {next_session}
               /\ tabs' = Append(tabs, next_session)
               /\ current' = Len(tabs')
               /\ sessions'[next_session].kernel_name \in KernelNames
               /\ sessions'[next_session].shutdowns = 0
               /\ sessions'[next_session].connected.execution_complete
                     = "handle_execution_complete"
               /\ sessions'[next_session].connected.workspace_updated
                     = "handle_workspace_updated"
               /\ \A id \in DOMAIN sessions : sessions'[id] = sessions[id]
          ELSE UNCHANGED <<tabs, current, sessions, next_session>>]_vars

\* add_console_tab has added a third tab, of the kind of the two before it.
C31_Witness ==
    /\ reg.op = "add_console_tab" /\ reg.outcome = "returned"
    /\ Len(tabs) = 3 /\ current = 3
    /\ \A k \in 1..3 : sessions[tabs[k]].kernel_name = "python3"
    /\ sessions[tabs[3]].connected = Connections

\* C32: with every dispatch and every delivery on the event-loop thread,
\* each key of _pending_messages is in _internal_messages and in
\* _silent_messages after every step, and a step in which a message sets a
\* future that was not done emits no execution_complete.
C32_PendingAreInternalAndSilent ==
    [][/\ DOMAIN pending_messages' \subseteq internal_messages' \cap silent_messages'
       /\ (\E h \in DOMAIN futures : ~Done(futures[h]) /\ Done(futures'[h]))
             => out'.emits = <<>>]_vars

\* The idle status of a pending request has just set its future while another
\* request is pending, internal and silent.
C32_Witness ==
    /\ HandledNow /\ IsIdle(out.msg) /\ out.tracked
    /\ futures[out.msg.msg_id].result = PyEmptyDict
    /\ out.emits = <<>>
    /\ pending_messages # <<>>
    /\ DOMAIN pending_messages \subseteq internal_messages \cap silent_messages

\* C33 (as claimed): every workspace_updated the JupyterConsole emits carries
\* the workspace of the tab that is current when it is emitted.
C33_ForwardsActiveWorkspaceOnly ==
    \A k \in 1..Len(pair.fwd) : pair.fwd[k].sender = pair.fwd[k].active

\* C34 (as claimed): once close_tab has shut the session down, no step runs
\* update_workspace on it, which would hand a snapshot request to
\* kernel_client.execute (line 202); in particular no refresh timer started
\* before the close does.
C34_NoDispatchAfterClose ==
    [][closed => ret'.api # "update_workspace"]_vars

\* C35: restart_kernel changes none of _pending_messages, _internal_messages
\* and _silent_messages and no future; and the future of a pending request
\* goes from not done to done only in a step that handles a stream message or
\* the idle status of that request.
C35_RestartKeepsTracking ==
    [][/\ ret'.api = "restart_kernel" => UNCHANGED <<tracking, futures>>
       /\ \A id \in DOMAIN pending_messages :
             LET h == pending_messages[id] IN
             (~Done(futures[h]) /\ Done(futures'[h])) =>
                /\ out'.msg # NoMsg /\ out'.msg.msg_id = id
                /\ out'.msg.msg_type = "stream" \/ IsIdle(out'.msg)]_vars

\* restart_kernel has just asked for the restart while a request is pending
\* with its future not done.
C35_Witness ==
    /\ ret.api = "restart_kernel" /\ ret.value = PyBool(TRUE)
    /\ \E id \in DOMAIN pending_messages :
          /\ ~Done(futures[pending_messages[id]])
          /\ id \in internal_messages \cap silent_messages

\* C36: a step that handles a message starts one refresh timer for each
\* execution_complete it emits, whatever timers are pending already; a timer
\* that expires runs update_workspace once and is the only timer to go; and
\* update_workspace runs for an expired timer only.
C36_OneRefreshPerEmission ==
    [][/\ out'.msg # NoMsg => timers' = timers + Len(out'.emits)
       /\ timers' < timers => (timers' = timers - 1 /\ ret'.api = "update_workspace")
       /\ ret'.api = "update_workspace" => timers' = timers - 1]_vars

\* The one visible execution has produced an output message and its idle
\* status, both handled: two refresh timers are pending.
C36_Witness ==
    /\ HandledNow /\ IsIdle(out.msg) /\ out.msg.msg_id = 1
    /\ DOMAIN requests = {1} /\ ~requests[1].internal
    /\ Len(out.emits) = 1
    /\ timers = 2

====
